---- MODULE Spec2Model ----
(***************************************************************************)
(* ThreadSafeQueue<T> (thread_safe_queue.h / .ipp) and WorkerPool          *)
(* (worker_pool.h / .cpp) as a state machine.                              *)
(*                                                                         *)
(* Every queue method is a critical section on mtx: a thread first blocks  *)
(* on the mutex (q_pc = "lock"), then runs the method body while holding   *)
(* it (q_pc = "cs") and releases it on return (q_pc = "done", the result   *)
(* in ret and data).  pop() may park the thread on the condition variable  *)
(* cv (q_pc = "wait"); a notification (or a spurious wakeup) sends it back *)
(* to the mutex and to the wait predicate.                                 *)
(***************************************************************************)
EXTENDS Integers, Sequences, FiniteSets, TLC

\* Bounds of the model.
MaxPush == 2          \* elements pushed by client threads
NumClients == 2       \* client threads using the queue directly
NumConsumers == 2     \* threads that only pop (consumer loops)
NumProducers == 1     \* threads that only push and close
MaxProduced == 1      \* elements pushed by the producers
MaxTasks == 2         \* tasks submitted to the pool
MaxWorkers == 2       \* largest number_workers passed to start()

\* std::nullopt / "no value": elements are numbered from 1 in push order.
NoValue == 0

Clients == {<<"client", i>> : i \in 1..NumClients}
\* Worker i is the thread stored under the name "Worker " + std::to_string(i).
Workers == {<<"Worker", i>> : i \in 0..(MaxWorkers - 1)}
\* The thread that owns the pool and calls start/submit/stop/~WorkerPool.
Main == <<"main", 0>>
NoThread == <<"none", 0>>
\* Threads with a fixed role: consumers loop on pop, producers push and close.
Consumers == {<<"consumer", i>> : i \in 1..NumConsumers}
Producers == {<<"producer", i>> : i \in 1..NumProducers}
Threads == Clients \cup Consumers \cup Producers \cup Workers \cup {Main}

VARIABLES
    buffer,      \* std::deque<T> buffer
    closed,      \* bool closed
    mtx,         \* owner of std::mutex mtx, or NoThread
    q_pc,        \* per thread: "idle", "lock", "cs", "wait", "done", "exited"
    q_op,        \* per thread: the queue method it is in (or was last in)
    q_arg,       \* per thread: the argument of push
    data,        \* per thread: the variable passed to pop(T& data)
    ret,         \* per thread: the value returned by its last queue call
    pushed,      \* history: number of push calls made so far
    pushOrder,   \* history: the elements in the order push appended them
    delivered,   \* history: elements returned by pop/try_pop, in removal order
    discarded,   \* history: number of elements destroyed by clear()
    running,     \* std::atomic<bool> running
    workers,     \* std::unordered_map<std::string, std::thread> workers (its keys)
    w_pc,        \* per worker thread: "none", "loop", "pop", "exec", "catch",
                 \*                    "exited", "joined"
    m_pc,        \* position of the owning thread inside the pool's methods
    m_n,         \* number_workers of the start() in progress (or of the last one)
    m_i,         \* loop variable i of start()
    m_join,      \* the worker stop() is joining, or NoThread
    m_dtor,      \* TRUE while (and after) ~WorkerPool runs
    executed,    \* history: per task, how many times it was invoked to completion
    openAtStart, \* history: the queue was open when the last start() set running
    timedOut,    \* history: the drain wait of the last stop() ended by timeout
    pendingAtStop, \* history: tasks queued or in flight when the stop() in progress was called
    failed,      \* history: some task has thrown since the pool was constructed
    count,       \* std::atomic<int> count of the concurrent readers
    second       \* a second thread's call of start(): its position, its
                 \* number_workers and its loop variable i

\* The second thread is not inside start().
NotCalled == [pc |-> "idle", n |-> 0, i |-> 0]

qvars == <<buffer, closed, mtx, q_pc, q_op, q_arg, data, ret,
           pushed, pushOrder, delivered, discarded>>
pvars == <<running, workers, w_pc, m_pc, m_n, m_i, m_join, m_dtor,
           executed, openAtStart, timedOut, pendingAtStop, failed, count, second>>
vars == <<buffer, closed, mtx, q_pc, q_op, q_arg, data, ret,
          pushed, pushOrder, delivered, discarded,
          running, workers, w_pc, m_pc, m_n, m_i, m_join, m_dtor,
          executed, openAtStart, timedOut, pendingAtStop, failed, count, second>>

QueueOps == {"push", "pop", "try_pop", "empty", "size", "clear", "close"}

\* Return values: ok is the bool (pop, empty) or has_value() (try_pop),
\* val is value() (try_pop) or the size_t (size).
Ret(ok, val) == [ok |-> ok, val |-> val]
Void == Ret(FALSE, NoValue)

\* Threads blocked in cv.wait().
Waiting == {t \in Threads : q_pc[t] = "wait"}

\* Fault: the wait predicate of pop ignores the closed flag.
PopPredicate_NotEmpty == buffer # <<>>

\* The wait predicate of pop: closed || !buffer.empty().
PopPredicate == closed \/ buffer # <<>>

\* Fault: try_pop leaves the last element in the queue.
TryPopAvailable_OffByOne == ~closed /\ Len(buffer) > 1

\* Fault: try_pop ignores the closed flag.
TryPopAvailable_IgnoreClosed == buffer # <<>>

\* try_pop: if (!closed && !buffer.empty())
TryPopAvailable == ~closed /\ buffer # <<>>

\* Fault: pop gives up as soon as the queue is closed, elements left or not.
PopGivesUp_Closed == closed

\* pop after the wait: if (closed && buffer.empty()) return false;
PopGivesUp == closed /\ buffer = <<>>

----------------------------------------------------------------------------
\* Effects of the method bodies on the queue's own state.

\* Fault: the element is put at the front.
EmplaceBack_Front(buf, x) == <<x>> \o buf

\* buffer.emplace_back(std::move(data))
EmplaceBack(buf, x) == Append(buf, x)

\* Fault: the newest element is taken.
Front_Back(buf) == buf[Len(buf)]

\* buffer.front()
Front(buf) == Head(buf)

\* Fault: the front element is handed out but not removed.
PopFront_Keep(buf) == buf

\* buffer.pop_front()
PopFront(buf) == Tail(buf)

\* Fault: push appends and signals nobody.
NotifyOne_Nobody == {{}}

\* cv.notify_one(): the waiters it may wake (any single one, none if nobody waits).
NotifyOne == IF Waiting = {} THEN {{}} ELSE {{w} : w \in Waiting}

\* Fault: close() wakes a single waiter.
NotifyAll_One == NotifyOne

\* Fault: close() sets the flag and signals nobody.
NotifyAll_Nobody == {{}}

\* cv.notify_all(): wakes every waiter.
NotifyAll == {Waiting}

\* A thread returns from a queue method: it releases mtx, the threads in woken
\* leave cv.wait() and go back to the mutex.
Return(t, r, woken) ==
    /\ mtx' = NoThread
    /\ q_pc' = [x \in Threads |-> IF x = t THEN "done"
                                  ELSE IF x \in woken THEN "lock" ELSE q_pc[x]]
    /\ ret' = [ret EXCEPT ![t] = r]

----------------------------------------------------------------------------
\* A thread enters a queue method (and blocks on the mutex).
Call(t, op, x) ==
    /\ q_pc[t] = "idle"
    /\ q_pc' = [q_pc EXCEPT ![t] = "lock"]
    /\ q_op' = [q_op EXCEPT ![t] = op]
    /\ q_arg' = [q_arg EXCEPT ![t] = x]
    /\ UNCHANGED <<buffer, closed, mtx, data, ret, pushed, pushOrder, delivered, discarded>>

\* std::unique_lock / std::lock_guard constructor: acquire mtx.
Lock(t) ==
    /\ UNCHANGED pvars
    /\ q_pc[t] = "lock"
    /\ mtx = NoThread
    /\ mtx' = t
    /\ q_pc' = [q_pc EXCEPT ![t] = "cs"]
    /\ UNCHANGED <<buffer, closed, q_op, q_arg, data, ret, pushed, pushOrder, delivered, discarded>>

\* Fault: a closed queue refuses new elements.
push_DropIfClosed(t) ==
    /\ UNCHANGED pvars
    /\ q_pc[t] = "cs" /\ q_op[t] = "push" /\ mtx = t
    /\ buffer' = IF closed THEN buffer ELSE EmplaceBack(buffer, q_arg[t])
    /\ pushOrder' = Append(pushOrder, q_arg[t])
    /\ \E woken \in NotifyOne : Return(t, Void, woken)
    /\ UNCHANGED <<closed, q_op, q_arg, data, pushed, delivered, discarded>>

\* ThreadSafeQueue<T>::push
push(t) ==
    /\ UNCHANGED pvars
    /\ q_pc[t] = "cs" /\ q_op[t] = "push" /\ mtx = t
    /\ buffer' = EmplaceBack(buffer, q_arg[t])
    /\ pushOrder' = Append(pushOrder, q_arg[t])
    /\ \E woken \in NotifyOne : Return(t, Void, woken)
    /\ UNCHANGED <<closed, q_op, q_arg, data, pushed, delivered, discarded>>

\* ThreadSafeQueue<T>::pop, predicate false: cv.wait releases mtx and blocks.
pop_wait(t) ==
    /\ UNCHANGED pvars
    /\ q_pc[t] = "cs" /\ q_op[t] = "pop" /\ mtx = t
    /\ ~PopPredicate
    /\ mtx' = NoThread
    /\ q_pc' = [q_pc EXCEPT ![t] = "wait"]
    /\ UNCHANGED <<buffer, closed, q_op, q_arg, data, ret, pushed, pushOrder, delivered, discarded>>

\* ThreadSafeQueue<T>::pop, predicate true, closed and empty: return false.
pop_false(t) ==
    /\ UNCHANGED pvars
    /\ q_pc[t] = "cs" /\ q_op[t] = "pop" /\ mtx = t
    /\ PopPredicate
    /\ PopGivesUp
    /\ Return(t, Ret(FALSE, NoValue), {})
    /\ UNCHANGED <<buffer, closed, q_op, q_arg, data, pushed, pushOrder, delivered, discarded>>

\* Fault: pop returns its element with the mutex still locked.
pop_true_HoldsLock(t) ==
    /\ UNCHANGED pvars
    /\ q_pc[t] = "cs" /\ q_op[t] = "pop" /\ mtx = t
    /\ PopPredicate
    /\ ~PopGivesUp
    /\ data' = [data EXCEPT ![t] = Front(buffer)]
    /\ delivered' = Append(delivered, Front(buffer))
    /\ buffer' = PopFront(buffer)
    /\ q_pc' = [q_pc EXCEPT ![t] = "done"]
    /\ ret' = [ret EXCEPT ![t] = Ret(TRUE, NoValue)]
    /\ UNCHANGED <<closed, mtx, q_op, q_arg, pushed, pushOrder, discarded>>

\* ThreadSafeQueue<T>::pop, predicate true, element available: move the front
\* element to data, pop_front, return true.
pop_true(t) ==
    /\ UNCHANGED pvars
    /\ q_pc[t] = "cs" /\ q_op[t] = "pop" /\ mtx = t
    /\ PopPredicate
    /\ ~PopGivesUp
    /\ data' = [data EXCEPT ![t] = Front(buffer)]
    /\ delivered' = Append(delivered, Front(buffer))
    /\ buffer' = PopFront(buffer)
    /\ Return(t, Ret(TRUE, NoValue), {})
    /\ UNCHANGED <<closed, q_op, q_arg, pushed, pushOrder, discarded>>

pop(t) == pop_wait(t) \/ pop_false(t) \/ pop_true(t)

\* Fault: try_pop on a closed queue returns the empty result but drops the
\* front element.
try_pop_DropOnClosed(t) ==
    /\ UNCHANGED pvars
    /\ q_pc[t] = "cs" /\ q_op[t] = "try_pop" /\ mtx = t
    /\ IF TryPopAvailable
       THEN /\ delivered' = Append(delivered, Front(buffer))
            /\ buffer' = PopFront(buffer)
            /\ Return(t, Ret(TRUE, Front(buffer)), {})
       ELSE /\ Return(t, Ret(FALSE, NoValue), {})
            /\ buffer' = IF buffer # <<>> THEN PopFront(buffer) ELSE buffer
            /\ UNCHANGED delivered
    /\ UNCHANGED <<closed, q_op, q_arg, data, pushed, pushOrder, discarded>>

\* ThreadSafeQueue<T>::try_pop
try_pop(t) ==
    /\ UNCHANGED pvars
    /\ q_pc[t] = "cs" /\ q_op[t] = "try_pop" /\ mtx = t
    /\ IF TryPopAvailable
       THEN /\ delivered' = Append(delivered, Front(buffer))
            /\ buffer' = PopFront(buffer)
            /\ Return(t, Ret(TRUE, Front(buffer)), {})
       ELSE /\ Return(t, Ret(FALSE, NoValue), {})
            /\ UNCHANGED <<buffer, delivered>>
    /\ UNCHANGED <<closed, q_op, q_arg, data, pushed, pushOrder, discarded>>

\* ThreadSafeQueue<T>::empty
empty(t) ==
    /\ UNCHANGED pvars
    /\ q_pc[t] = "cs" /\ q_op[t] = "empty" /\ mtx = t
    /\ Return(t, Ret(buffer = <<>>, NoValue), {})
    /\ UNCHANGED <<buffer, closed, q_op, q_arg, data, pushed, pushOrder, delivered, discarded>>

\* ThreadSafeQueue<T>::size
size(t) ==
    /\ UNCHANGED pvars
    /\ q_pc[t] = "cs" /\ q_op[t] = "size" /\ mtx = t
    /\ Return(t, Ret(FALSE, Len(buffer)), {})
    /\ UNCHANGED <<buffer, closed, q_op, q_arg, data, pushed, pushOrder, delivered, discarded>>

\* Fault: clear() signals the condition variable.
clear_NotifyAll(t) ==
    /\ UNCHANGED pvars
    /\ q_pc[t] = "cs" /\ q_op[t] = "clear" /\ mtx = t
    /\ buffer' = <<>>
    /\ discarded' = discarded + Len(buffer)
    /\ \E woken \in NotifyAll : Return(t, Void, woken)
    /\ UNCHANGED <<closed, q_op, q_arg, data, pushed, pushOrder, delivered>>

\* ThreadSafeQueue<T>::clear
clear(t) ==
    /\ UNCHANGED pvars
    /\ q_pc[t] = "cs" /\ q_op[t] = "clear" /\ mtx = t
    /\ buffer' = <<>>
    /\ discarded' = discarded + Len(buffer)
    /\ Return(t, Void, {})
    /\ UNCHANGED <<closed, q_op, q_arg, data, pushed, pushOrder, delivered>>

\* Fault: close() flips the flag instead of setting it.
close_Toggle(t) ==
    /\ UNCHANGED pvars
    /\ q_pc[t] = "cs" /\ q_op[t] = "close" /\ mtx = t
    /\ closed' = ~closed
    /\ \E woken \in NotifyAll : Return(t, Void, woken)
    /\ UNCHANGED <<buffer, q_op, q_arg, data, pushed, pushOrder, delivered, discarded>>

\* ThreadSafeQueue<T>::close
close(t) ==
    /\ UNCHANGED pvars
    /\ q_pc[t] = "cs" /\ q_op[t] = "close" /\ mtx = t
    /\ closed' = TRUE
    /\ \E woken \in NotifyAll : Return(t, Void, woken)
    /\ UNCHANGED <<buffer, q_op, q_arg, data, pushed, pushOrder, delivered, discarded>>

\* std::condition_variable::wait may return without a notification.
SpuriousWakeup(t) ==
    /\ UNCHANGED pvars
    /\ q_pc[t] = "wait"
    /\ q_pc' = [q_pc EXCEPT ![t] = "lock"]
    /\ UNCHANGED <<buffer, closed, mtx, q_op, q_arg, data, ret, pushed, pushOrder, delivered, discarded>>

----------------------------------------------------------------------------
\* Client threads: any thread may call any method of the queue at any time.

ClientPush(t) ==
    /\ UNCHANGED pvars
    /\ pushed < MaxPush
    /\ pushed' = pushed + 1
    /\ q_pc[t] = "idle"
    /\ mtx = NoThread
    /\ mtx' = t
    /\ q_pc' = [q_pc EXCEPT ![t] = "cs"]
    /\ q_op' = [q_op EXCEPT ![t] = "push"]
    /\ q_arg' = [q_arg EXCEPT ![t] = pushed + 1]
    /\ UNCHANGED <<buffer, closed, data, ret, pushOrder, delivered, discarded>>

\* A client calls a method other than push and its lock_guard / unique_lock
\* acquires mtx.  For clients the call and the acquisition are one step: no
\* other thread can see a caller that has chosen its method but not yet taken
\* the lock.
ClientCall(t) ==
    /\ \E op \in QueueOps \ {"push"} :
          /\ q_pc[t] = "idle"
          /\ mtx = NoThread
          /\ mtx' = t
          /\ q_pc' = [q_pc EXCEPT ![t] = "cs"]
          /\ q_op' = [q_op EXCEPT ![t] = op]
    /\ UNCHANGED <<buffer, closed, q_arg, data, ret, pushed, pushOrder, delivered, discarded>>
    /\ UNCHANGED pvars

\* The caller has looked at the result; its locals go out of scope.
ClientReturn(t) ==
    /\ q_pc[t] = "done"
    /\ q_pc' = [q_pc EXCEPT ![t] = "idle"]
    /\ q_op' = [q_op EXCEPT ![t] = "none"]
    /\ q_arg' = [q_arg EXCEPT ![t] = NoValue]
    /\ data' = [data EXCEPT ![t] = NoValue]
    /\ ret' = [ret EXCEPT ![t] = Void]
    /\ UNCHANGED <<buffer, closed, mtx, pushed, pushOrder, delivered, discarded>>
    /\ UNCHANGED pvars

\* One step of thread t inside a queue method.
QueueStep(t) ==
    \/ Lock(t)
    \/ push(t)
    \/ pop_wait(t)
    \/ pop_false(t)
    \/ pop_true(t)
    \/ try_pop(t)
    \/ empty(t)
    \/ size(t)
    \/ clear(t)
    \/ close(t)
    \/ SpuriousWakeup(t)

----------------------------------------------------------------------------
\* WorkerPool::run, one thread per worker.

\* What an invocation of a task may do: return, or throw a std::exception.
TaskOutcomes == {"returns", "throws"}

\* Top of the for(;;) body: a fresh, empty task, then task_queue.pop(task).
run_pop(w) ==
    /\ w_pc[w] = "loop"
    /\ q_pc[w] = "idle"
    /\ w_pc' = [w_pc EXCEPT ![w] = "pop"]
    /\ q_pc' = [q_pc EXCEPT ![w] = "lock"]
    /\ q_op' = [q_op EXCEPT ![w] = "pop"]
    /\ data' = [data EXCEPT ![w] = NoValue]
    /\ UNCHANGED <<buffer, closed, mtx, q_arg, ret, pushed, pushOrder, delivered, discarded>>
    /\ UNCHANGED <<second, failed, count, running, workers, m_pc, m_n, m_i, m_join, m_dtor,
                   executed, openAtStart, timedOut, pendingAtStop>>

\* if (!task_queue.pop(task)) break;  the thread function returns.
run_break(w) ==
    /\ w_pc[w] = "pop"
    /\ q_pc[w] = "done"
    /\ ~ret[w].ok
    /\ w_pc' = [w_pc EXCEPT ![w] = "exited"]
    /\ q_pc' = [q_pc EXCEPT ![w] = "idle"]
    /\ q_op' = [q_op EXCEPT ![w] = "none"]
    /\ ret' = [ret EXCEPT ![w] = Void]
    /\ UNCHANGED <<buffer, closed, mtx, q_arg, data, pushed, pushOrder, delivered, discarded>>
    /\ UNCHANGED <<second, failed, count, running, workers, m_pc, m_n, m_i, m_join, m_dtor,
                   executed, openAtStart, timedOut, pendingAtStop>>

\* pop returned true: task() is invoked (the queue mutex is not held).
run_invoke(w) ==
    /\ w_pc[w] = "pop"
    /\ q_pc[w] = "done"
    /\ ret[w].ok
    /\ w_pc' = [w_pc EXCEPT ![w] = "exec"]
    /\ q_pc' = [q_pc EXCEPT ![w] = "idle"]
    /\ q_op' = [q_op EXCEPT ![w] = "none"]
    /\ ret' = [ret EXCEPT ![w] = Void]
    /\ UNCHANGED <<buffer, closed, mtx, q_arg, data, pushed, pushOrder, delivered, discarded>>
    /\ UNCHANGED <<second, failed, count, running, workers, m_pc, m_n, m_i, m_join, m_dtor,
                   executed, openAtStart, timedOut, pendingAtStop>>

\* task() ends: it returns (next iteration) or throws a std::exception
\* (the catch clause is entered).
run_task_done(w) ==
    /\ w_pc[w] = "exec"
    /\ executed' = [executed EXCEPT ![data[w]] = @ + 1]
    /\ \E outcome \in TaskOutcomes :
          /\ w_pc' = [w_pc EXCEPT ![w] = IF outcome = "throws" THEN "catch" ELSE "loop"]
          /\ failed' = (failed \/ outcome = "throws")
    /\ UNCHANGED qvars
    /\ UNCHANGED <<second, count, running, workers, m_pc, m_n, m_i, m_join, m_dtor,
                   openAtStart, timedOut, pendingAtStop>>

\* Fault: the handler puts the failed task back on the queue.
run_catch_Requeue(w) ==
    /\ w_pc[w] = "catch"
    /\ w_pc' = [w_pc EXCEPT ![w] = "loop"]
    /\ buffer' = IF executed[data[w]] < 2 THEN Append(buffer, data[w]) ELSE buffer
    /\ UNCHANGED <<closed, mtx, q_pc, q_op, q_arg, data, ret, pushed, pushOrder,
                   delivered, discarded>>
    /\ UNCHANGED <<second, failed, count, running, workers, m_pc, m_n, m_i, m_join, m_dtor,
                   executed, openAtStart, timedOut, pendingAtStop>>

\* Fault: a failure ends the worker's loop.
run_catch_Exit(w) ==
    /\ w_pc[w] = "catch"
    /\ w_pc' = [w_pc EXCEPT ![w] = "exited"]
    /\ UNCHANGED qvars
    /\ UNCHANGED <<second, failed, count, running, workers, m_pc, m_n, m_i, m_join, m_dtor,
                   executed, openAtStart, timedOut, pendingAtStop>>

\* catch (const std::exception& e) { Logger::error(...); }  next iteration.
run_catch(w) ==
    /\ w_pc[w] = "catch"
    /\ w_pc' = [w_pc EXCEPT ![w] = "loop"]
    /\ UNCHANGED qvars
    /\ UNCHANGED <<second, failed, count, running, workers, m_pc, m_n, m_i, m_join, m_dtor,
                   executed, openAtStart, timedOut, pendingAtStop>>

\* WorkerPool::run
run(w) ==
    run_pop(w) \/ run_break(w) \/ run_invoke(w) \/ run_task_done(w) \/ run_catch(w)

----------------------------------------------------------------------------
\* WorkerPool::start

\* Fault: start() without its guard.
start_guard_Always(n) ==
    /\ m_pc = "idle"
    /\ m_pc' = "start_set" /\ m_n' = n
    /\ UNCHANGED qvars
    /\ UNCHANGED <<second, failed, count, running, workers, w_pc, m_i, m_join, m_dtor,
                   executed, openAtStart, timedOut, pendingAtStop>>

\* if (running) return;
start_guard(n) ==
    /\ m_pc = "idle"
    /\ IF running
       THEN m_pc' = "start_noop" /\ m_n' = m_n
       ELSE m_pc' = "start_set" /\ m_n' = n
    /\ UNCHANGED qvars
    /\ UNCHANGED <<second, failed, count, running, workers, w_pc, m_i, m_join, m_dtor,
                   executed, openAtStart, timedOut, pendingAtStop>>

\* Fault: start() spawns its workers without setting the running flag.
start_set_NoFlag ==
    /\ m_pc = "start_set"
    /\ running' = running
    /\ m_i' = 0
    /\ m_pc' = "start_spawn"
    /\ openAtStart' = ~closed
    /\ UNCHANGED qvars
    /\ UNCHANGED <<second, failed, count, workers, w_pc, m_n, m_join, m_dtor, executed, timedOut, pendingAtStop>>

\* running = true;
start_set ==
    /\ m_pc = "start_set"
    /\ running' = TRUE
    /\ m_i' = 0
    /\ m_pc' = "start_spawn"
    /\ openAtStart' = ~closed
    /\ UNCHANGED qvars
    /\ UNCHANGED <<second, failed, count, workers, w_pc, m_n, m_join, m_dtor, executed, timedOut, pendingAtStop>>

\* Fault: the loop index is left out of the thread's name.
start_spawn_SameName ==
    /\ m_pc = "start_spawn"
    /\ m_i < m_n
    /\ workers' = workers \cup {<<"Worker", 0>>}
    /\ w_pc' = [w_pc EXCEPT ![<<"Worker", 0>>] = "loop"]
    /\ m_i' = m_i + 1
    /\ UNCHANGED qvars
    /\ UNCHANGED <<second, failed, count, running, m_pc, m_n, m_join, m_dtor, executed,
                   openAtStart, timedOut, pendingAtStop>>

\* One iteration of the for loop: workers.emplace(name, std::thread(run)).
start_spawn ==
    /\ m_pc = "start_spawn"
    /\ m_i < m_n
    /\ workers' = workers \cup {<<"Worker", m_i>>}
    /\ w_pc' = [w_pc EXCEPT ![<<"Worker", m_i>>] = "loop"]
    /\ m_i' = m_i + 1
    /\ UNCHANGED qvars
    /\ UNCHANGED <<second, failed, count, running, m_pc, m_n, m_join, m_dtor, executed,
                   openAtStart, timedOut, pendingAtStop>>

\* The for loop ends (i >= number_workers), or the guard returned: start() returns.
start_return ==
    /\ \/ m_pc = "start_spawn" /\ m_i >= m_n
       \/ m_pc = "start_noop"
    /\ m_pc' = "idle"
    /\ UNCHANGED qvars
    /\ UNCHANGED <<second, failed, count, running, workers, w_pc, m_n, m_i, m_join, m_dtor,
                   executed, openAtStart, timedOut, pendingAtStop>>

----------------------------------------------------------------------------
\* WorkerPool::submit

\* task_queue.push(std::move(task)): the call.
submit ==
    /\ m_pc = "idle"
    /\ pushed < MaxTasks
    /\ pushed' = pushed + 1
    /\ m_pc' = "submit"
    /\ q_pc' = [q_pc EXCEPT ![Main] = "lock"]
    /\ q_op' = [q_op EXCEPT ![Main] = "push"]
    /\ q_arg' = [q_arg EXCEPT ![Main] = pushed + 1]
    /\ UNCHANGED <<buffer, closed, mtx, data, ret, pushOrder, delivered, discarded>>
    /\ UNCHANGED <<second, failed, count, running, workers, w_pc, m_n, m_i, m_join, m_dtor,
                   executed, openAtStart, timedOut, pendingAtStop>>

\* push returned: submit() returns.
submit_return ==
    /\ m_pc = "submit"
    /\ q_pc[Main] = "done"
    /\ m_pc' = "idle"
    /\ q_pc' = [q_pc EXCEPT ![Main] = "idle"]
    /\ q_op' = [q_op EXCEPT ![Main] = "none"]
    /\ q_arg' = [q_arg EXCEPT ![Main] = NoValue]
    /\ UNCHANGED <<buffer, closed, mtx, data, ret, pushed, pushOrder, delivered, discarded>>
    /\ UNCHANGED <<second, failed, count, running, workers, w_pc, m_n, m_i, m_join, m_dtor,
                   executed, openAtStart, timedOut, pendingAtStop>>

----------------------------------------------------------------------------
\* WorkerPool::stop and WorkerPool::~WorkerPool

\* The owning thread enters a method of task_queue.
MainCall(op) ==
    /\ q_pc' = [q_pc EXCEPT ![Main] = "lock"]
    /\ q_op' = [q_op EXCEPT ![Main] = op]

\* The owning thread is back from a method of task_queue.
MainBack ==
    /\ q_pc' = [q_pc EXCEPT ![Main] = "idle"]
    /\ q_op' = [q_op EXCEPT ![Main] = "none"]
    /\ ret' = [ret EXCEPT ![Main] = Void]

\* Tasks that are in the queue or held by a worker that has not finished them.
Pending == {k \in 1..pushed : executed[k] = 0}

\* Fault: the destructor does not stop a running pool.
stop_guard_DtorSkips(dtor) ==
    /\ m_pc = "idle"
    /\ m_dtor' = dtor
    /\ m_pc' = IF running /\ ~dtor THEN "stop_set" ELSE "stop_noop"
    /\ pendingAtStop' = IF running /\ ~dtor THEN Pending ELSE {}
    /\ UNCHANGED qvars
    /\ UNCHANGED <<second, failed, count, running, workers, w_pc, m_n, m_i, m_join,
                   executed, openAtStart, timedOut>>

\* Fault: stop() without its guard.
stop_guard_Always(dtor) ==
    /\ m_pc = "idle"
    /\ m_dtor' = dtor
    /\ m_pc' = "stop_set"
    /\ pendingAtStop' = Pending
    /\ UNCHANGED qvars
    /\ UNCHANGED <<second, failed, count, running, workers, w_pc, m_n, m_i, m_join,
                   executed, openAtStart, timedOut>>

\* if (!running) return;   dtor: the call comes from ~WorkerPool.
stop_guard(dtor) ==
    /\ m_pc = "idle"
    /\ m_dtor' = dtor
    /\ m_pc' = IF running THEN "stop_set" ELSE "stop_noop"
    /\ pendingAtStop' = IF running THEN Pending ELSE {}
    /\ UNCHANGED qvars
    /\ UNCHANGED <<second, failed, count, running, workers, w_pc, m_n, m_i, m_join,
                   executed, openAtStart, timedOut>>

\* Fault: stop() closes the queue right away, without the drain wait.
stop_set_NoDrain ==
    /\ m_pc = "stop_set"
    /\ running' = FALSE
    /\ timedOut' = FALSE
    /\ m_pc' = "close"
    /\ MainCall("close")
    /\ UNCHANGED <<buffer, closed, mtx, q_arg, data, ret, pushed, pushOrder, delivered, discarded>>
    /\ UNCHANGED <<second, failed, count, workers, w_pc, m_n, m_i, m_join, m_dtor, executed, openAtStart, pendingAtStop>>

\* running = false;  then the first evaluation of !task_queue.empty().
stop_set ==
    /\ m_pc = "stop_set"
    /\ running' = FALSE
    /\ timedOut' = FALSE
    /\ m_pc' = "drain"
    /\ MainCall("empty")
    /\ UNCHANGED <<buffer, closed, mtx, q_arg, data, ret, pushed, pushOrder, delivered, discarded>>
    /\ UNCHANGED <<second, failed, count, workers, w_pc, m_n, m_i, m_join, m_dtor, executed, openAtStart, pendingAtStop>>

\* empty() returned true: the while loop ends and task_queue.close() is called.
drain_done ==
    /\ m_pc = "drain"
    /\ q_pc[Main] = "done"
    /\ ret[Main].ok
    /\ m_pc' = "close"
    /\ MainCall("close")
    /\ ret' = [ret EXCEPT ![Main] = Void]
    /\ UNCHANGED <<buffer, closed, mtx, q_arg, data, pushed, pushOrder, delivered, discarded>>
    /\ UNCHANGED <<second, failed, count, running, workers, w_pc, m_n, m_i, m_join, m_dtor,
                   executed, openAtStart, timedOut, pendingAtStop>>

\* empty() returned false: sleep_for(5 ms), then either more than one second
\* has passed (warning, break, close()) or the condition is evaluated again.
drain_sleep ==
    /\ m_pc = "drain"
    /\ q_pc[Main] = "done"
    /\ ~ret[Main].ok
    /\ ret' = [ret EXCEPT ![Main] = Void]
    /\ \E timeout \in BOOLEAN :
          /\ timedOut' = timeout
          /\ IF timeout
             THEN m_pc' = "close" /\ MainCall("close")
             ELSE m_pc' = "drain" /\ MainCall("empty")
    /\ UNCHANGED <<buffer, closed, mtx, q_arg, data, pushed, pushOrder, delivered, discarded>>
    /\ UNCHANGED <<second, failed, count, running, workers, w_pc, m_n, m_i, m_join, m_dtor,
                   executed, openAtStart, pendingAtStop>>

\* close() returned: the for loop over the map starts.
close_return ==
    /\ m_pc = "close"
    /\ q_pc[Main] = "done"
    /\ m_pc' = "join_loop"
    /\ MainBack
    /\ UNCHANGED <<buffer, closed, mtx, q_arg, data, pushed, pushOrder, delivered, discarded>>
    /\ UNCHANGED <<second, failed, count, running, workers, w_pc, m_n, m_i, m_join, m_dtor,
                   executed, openAtStart, timedOut, pendingAtStop>>

\* Map entries the for loop has not visited yet.
Unjoined == {w \in workers : w_pc[w] # "joined"}

\* The for loop reaches its next entry (in the map's iteration order, which is
\* unspecified); the thread is joinable, so join() is called.
join_next ==
    /\ m_pc = "join_loop"
    /\ \E w \in Unjoined : m_join' = w
    /\ m_pc' = "join"
    /\ UNCHANGED qvars
    /\ UNCHANGED <<second, failed, count, running, workers, w_pc, m_n, m_i, m_dtor,
                   executed, openAtStart, timedOut, pendingAtStop>>

\* Fault: the thread is let go (detached) instead of being waited for.
join_NoWait ==
    /\ m_pc = "join"
    /\ w_pc' = [w_pc EXCEPT ![m_join] = "joined"]
    /\ m_join' = NoThread
    /\ m_pc' = "join_loop"
    /\ UNCHANGED qvars
    /\ UNCHANGED <<second, failed, count, running, workers, m_n, m_i, m_dtor,
                   executed, openAtStart, timedOut, pendingAtStop>>

\* thread.join() returns once the worker's thread function has returned.
join ==
    /\ m_pc = "join"
    /\ w_pc[m_join] = "exited"
    /\ w_pc' = [w_pc EXCEPT ![m_join] = "joined"]
    /\ m_join' = NoThread
    /\ m_pc' = "join_loop"
    /\ UNCHANGED qvars
    /\ UNCHANGED <<second, failed, count, running, workers, m_n, m_i, m_dtor,
                   executed, openAtStart, timedOut, pendingAtStop>>

\* Fault: stop() returns without workers.clear().
clear_workers_Keep ==
    /\ m_pc = "join_loop"
    /\ Unjoined = {}
    /\ m_pc' = "stop_ret"
    /\ UNCHANGED qvars
    /\ UNCHANGED <<second, failed, count, running, workers, w_pc, m_n, m_i, m_join, m_dtor,
                   executed, openAtStart, timedOut, pendingAtStop>>

\* The for loop is over: workers.clear() destroys the (joined) thread objects.
clear_workers ==
    /\ m_pc = "join_loop"
    /\ Unjoined = {}
    /\ workers' = {}
    /\ w_pc' = [w \in Workers |-> IF w \in workers THEN "none" ELSE w_pc[w]]
    /\ m_pc' = "stop_ret"
    /\ UNCHANGED qvars
    /\ UNCHANGED <<second, failed, count, running, m_n, m_i, m_join, m_dtor,
                   executed, openAtStart, timedOut, pendingAtStop>>

\* stop() returns, to its caller or into ~WorkerPool.
stop_return ==
    /\ m_pc \in {"stop_ret", "stop_noop"}
    /\ m_pc' = IF m_dtor THEN "dtor_clear" ELSE "idle"
    /\ pendingAtStop' = {}
    /\ UNCHANGED qvars
    /\ UNCHANGED <<second, failed, count, running, workers, w_pc, m_n, m_i, m_join, m_dtor,
                   executed, openAtStart, timedOut>>

\* ~WorkerPool after stop(): workers.clear(); the pool is gone.
dtor_clear ==
    /\ m_pc = "dtor_clear"
    /\ workers' = {}
    /\ m_pc' = "destroyed"
    /\ UNCHANGED qvars
    /\ UNCHANGED <<second, failed, count, running, w_pc, m_n, m_i, m_join, m_dtor,
                   executed, openAtStart, timedOut, pendingAtStop>>

----------------------------------------------------------------------------
Init ==
    /\ buffer = <<>>
    /\ closed = FALSE
    /\ mtx = NoThread
    /\ q_pc = [t \in Threads |-> "idle"]
    /\ q_op = [t \in Threads |-> "none"]
    /\ q_arg = [t \in Threads |-> NoValue]
    /\ data = [t \in Threads |-> NoValue]
    /\ ret = [t \in Threads |-> Void]
    /\ pushed = 0
    /\ pushOrder = <<>>
    /\ delivered = <<>>
    /\ discarded = 0
    /\ running = FALSE
    /\ workers = {}
    /\ w_pc = [w \in Workers |-> "none"]
    /\ m_pc = "idle"
    /\ m_n = 0
    /\ m_i = 0
    /\ m_join = NoThread
    /\ m_dtor = FALSE
    /\ executed = [k \in 1..MaxTasks |-> 0]
    /\ openAtStart = FALSE
    /\ timedOut = FALSE
    /\ pendingAtStop = {}
    /\ count = 0
    /\ failed = FALSE
    /\ second = NotCalled

\* Threads call the queue's methods directly, in any order.
Next ==
    \E t \in Clients :
        \/ ClientPush(t)
        \/ ClientCall(t)
        \/ ClientReturn(t)
        \/ Lock(t)
        \/ push(t)
        \/ pop_wait(t)
        \/ pop_false(t)
        \/ pop_true(t)
        \/ try_pop(t)
        \/ empty(t)
        \/ size(t)
        \/ clear(t)
        \/ close(t)
        \/ SpuriousWakeup(t)

Spec == Init /\ [][Next]_vars

\* A consumer loop and a producer, as in the GracefulClose test: consumers
\* call pop again and again, producers push elements and close the queue.
ConsumerPop(c) ==
    /\ Call(c, "pop", NoValue)
    /\ UNCHANGED pvars

ProducerPush(p) ==
    /\ pushed < MaxProduced
    /\ pushed' = pushed + 1
    /\ q_pc[p] = "idle"
    /\ q_pc' = [q_pc EXCEPT ![p] = "lock"]
    /\ q_op' = [q_op EXCEPT ![p] = "push"]
    /\ q_arg' = [q_arg EXCEPT ![p] = pushed + 1]
    /\ UNCHANGED <<buffer, closed, mtx, data, ret, pushOrder, delivered, discarded>>
    /\ UNCHANGED pvars

ProducerClose(p) ==
    /\ Call(p, "close", NoValue)
    /\ UNCHANGED pvars

ProdConsNext ==
    \/ \E c \in Consumers :
          \/ ConsumerPop(c)
          \/ ClientReturn(c)
          \/ Lock(c)
          \/ pop_wait(c)
          \/ pop_false(c)
          \/ pop_true(c)
          \/ SpuriousWakeup(c)
    \/ \E p \in Producers :
          \/ ProducerPush(p)
          \/ ProducerClose(p)
          \/ ClientReturn(p)
          \/ Lock(p)
          \/ push(p)
          \/ close(p)

ProdConsSpec == Init /\ [][ProdConsNext]_vars

\* Scheduling: a thread that can run does run (weak fairness of the method
\* bodies and of the returns of cv.wait), and a thread blocked on the mutex
\* gets it sooner or later (strong fairness of Lock).  Nothing obliges a thread
\* to call the queue again, and nothing promises a spurious wakeup.
ProdConsFairness ==
    /\ \A t \in Consumers \cup Producers : SF_vars(Lock(t))
    /\ \A c \in Consumers : WF_vars(pop_wait(c) \/ pop_false(c) \/ pop_true(c))
    /\ \A p \in Producers : WF_vars(push(p) \/ close(p))

FairProdConsSpec == ProdConsSpec /\ ProdConsFairness

-----------------------------------------------------------------------------
\* Concurrent readers (TEST TryPopConcurrentReaders): the queue is filled
\* before the reader threads start, and each reader runs
\*     while (auto val = q.try_pop()) { ++count; }

\* The largest number of elements the queue is filled with.
MaxPrefill == 3

\* The state when the reader threads start: n elements pushed, none removed.
ReadersInit ==
    \E n \in 0..MaxPrefill :
        /\ buffer = [i \in 1..n |-> i]
        /\ pushed = n
        /\ pushOrder = [i \in 1..n |-> i]
        /\ closed = FALSE
        /\ mtx = NoThread
        /\ q_pc = [t \in Threads |-> "idle"]
        /\ q_op = [t \in Threads |-> "none"]
        /\ q_arg = [t \in Threads |-> NoValue]
        /\ data = [t \in Threads |-> NoValue]
        /\ ret = [t \in Threads |-> Void]
        /\ delivered = <<>>
        /\ discarded = 0
        /\ running = FALSE
        /\ workers = {}
        /\ w_pc = [w \in Workers |-> "none"]
        /\ m_pc = "idle"
        /\ m_n = 0
        /\ m_i = 0
        /\ m_join = NoThread
        /\ m_dtor = FALSE
        /\ executed = [k \in 1..MaxTasks |-> 0]
        /\ openAtStart = FALSE
        /\ timedOut = FALSE
        /\ pendingAtStop = {}
        /\ count = 0
        /\ failed = FALSE
        /\ second = NotCalled

\* The loop condition: call q.try_pop().
ReaderTryPop(c) ==
    /\ Call(c, "try_pop", NoValue)
    /\ UNCHANGED pvars

\* try_pop returned an element: ++count, and back to the loop condition.
ReaderCount(c) ==
    /\ q_pc[c] = "done" /\ q_op[c] = "try_pop"
    /\ ret[c].ok
    /\ count' = count + 1
    /\ q_pc' = [q_pc EXCEPT ![c] = "idle"]
    /\ q_op' = [q_op EXCEPT ![c] = "none"]
    /\ ret' = [ret EXCEPT ![c] = Void]
    /\ UNCHANGED <<buffer, closed, mtx, q_arg, data, pushed, pushOrder, delivered, discarded>>
    /\ UNCHANGED <<running, workers, w_pc, m_pc, m_n, m_i, m_join, m_dtor,
                   executed, openAtStart, timedOut, pendingAtStop, failed, second>>

\* try_pop returned the empty result: the loop and the thread end.
ReaderExit(c) ==
    /\ q_pc[c] = "done" /\ q_op[c] = "try_pop"
    /\ ~ret[c].ok
    /\ q_pc' = [q_pc EXCEPT ![c] = "exited"]
    /\ UNCHANGED <<buffer, closed, mtx, q_op, q_arg, data, ret, pushed, pushOrder,
                   delivered, discarded>>
    /\ UNCHANGED pvars

\* t1.join(); t2.join() have returned.
ReadersJoined == \A c \in Consumers : q_pc[c] = "exited"

ReadersNext ==
    \E c \in Consumers :
        \/ ReaderTryPop(c)
        \/ Lock(c)
        \/ try_pop(c)
        \/ ReaderCount(c)
        \/ ReaderExit(c)

ReadersSpec == ReadersInit /\ [][ReadersNext]_vars

\* One thread owns a pool bound to the queue; nobody else uses the queue.
PoolNext ==
    \/ \E n \in -1..MaxWorkers : start_guard(n)
    \/ start_set
    \/ start_spawn
    \/ start_return
    \/ submit
    \/ submit_return
    \/ \E dtor \in BOOLEAN : stop_guard(dtor)
    \/ stop_set
    \/ drain_done
    \/ drain_sleep
    \/ close_return
    \/ join_next
    \/ join
    \/ clear_workers
    \/ stop_return
    \/ dtor_clear
    \/ \E w \in Workers : run_pop(w)
    \/ \E w \in Workers : run_break(w)
    \/ \E w \in Workers : run_invoke(w)
    \/ \E w \in Workers : run_task_done(w)
    \/ \E w \in Workers : run_catch(w)
    \/ \E t \in Workers \cup {Main} : Lock(t)
    \/ push(Main)
    \/ empty(Main)
    \/ close(Main)
    \/ \E w \in Workers : pop_wait(w)
    \/ \E w \in Workers : pop_false(w)
    \/ \E w \in Workers : pop_true(w)
    \/ \E w \in Workers : SpuriousWakeup(w)

PoolSpec == Init /\ [][PoolNext]_vars

\* The steps of start(), submit() and stop() after the call itself.
MethodStep ==
    \/ start_set \/ start_spawn \/ start_return
    \/ submit_return
    \/ stop_set \/ drain_done \/ drain_sleep \/ close_return
    \/ join_next \/ join \/ clear_workers \/ stop_return \/ dtor_clear

\* Scheduling of the pool's threads: a thread blocked on the mutex gets it
\* sooner or later, a thread inside a queue method finishes it, a worker that
\* can take a step of run() takes it (tasks end), and a method of the pool
\* that was called runs on to its return.  Nothing obliges the owning thread
\* to call start, submit or stop again.  The steady clock advances: a drain
\* loop that keeps going round gets past its one-second limit.
PoolFairness ==
    /\ \A t \in Workers \cup {Main} : SF_vars(Lock(t))
    /\ \A w \in Workers : WF_vars(pop_wait(w) \/ pop_false(w) \/ pop_true(w))
    /\ \A w \in Workers : WF_vars(run(w))
    /\ WF_vars(push(Main) \/ empty(Main) \/ close(Main))
    /\ WF_vars(MethodStep)
    /\ SF_vars(drain_sleep /\ timedOut')

FairPoolSpec == PoolSpec /\ PoolFairness

----------------------------------------------------------------------------
\* What a thread that is back from a successful pop / try_pop has in hand.
Received(t) == IF q_op[t] = "pop" THEN data[t] ELSE ret[t].val
GotElement(t) ==
    /\ q_pc[t] = "done"
    /\ q_op[t] \in {"pop", "try_pop"}
    /\ ret[t].ok

\* C1: exactly-once delivery.  No element is returned by two successful
\* pop/try_pop calls: the removals recorded so far are pairwise distinct
\* elements that were pushed, and two threads holding the result of a
\* successful removal hold different elements.
C1_ExactlyOnce ==
    /\ \A i, j \in 1..Len(delivered) : i # j => delivered[i] # delivered[j]
    /\ \A i \in 1..Len(delivered) : delivered[i] \in 1..pushed
    /\ \A t, u \in Threads :
          (t # u /\ GotElement(t) /\ GotElement(u)) => Received(t) # Received(u)

\* Two threads have each removed an element, one by pop and one by try_pop.
C1_Witness ==
    \E t, u \in Clients :
        /\ t # u
        /\ GotElement(t) /\ q_op[t] = "pop"
        /\ GotElement(u) /\ q_op[u] = "try_pop"
        /\ Len(delivered) = 2

\* C2: the pool executes all submitted tasks.  When stop() returns on a pool
\* that was started with at least one worker on an open queue, every task
\* submitted before the stop() call has been executed exactly once.
C2_ExecutesAllTasks ==
    (m_pc = "stop_ret" /\ openAtStart /\ m_n >= 1) =>
        \A k \in 1..pushed : executed[k] = 1

\* stop() returns after MaxTasks tasks were run by two workers, the drain wait
\* having timed out.
C2_Witness ==
    /\ m_pc = "stop_ret" /\ openAtStart /\ m_n = 2
    /\ pushed = MaxTasks /\ timedOut
    /\ \A k \in 1..pushed : executed[k] = 1

\* C3: graceful shutdown drains pending work.  With at least one worker and a
\* drain wait that did not time out, every task that was queued or in flight
\* when stop() was called has finished executing when stop() returns.
C3_DrainsPendingWork ==
    (m_pc = "stop_ret" /\ m_n >= 1 /\ ~timedOut) =>
        \A k \in pendingAtStop : executed[k] >= 1

\* stop() returns without timeout and a task was pending when it was called.
C3_Witness ==
    /\ m_pc = "stop_ret" /\ m_n >= 1 /\ ~timedOut
    /\ pendingAtStop # {}
    /\ \A k \in pendingAtStop : executed[k] = 1

\* Thread t is inside pop and has not returned yet.
InPop(t) == q_op[t] = "pop" /\ q_pc[t] \in {"lock", "cs", "wait"}

\* C4: blocking pop unblocks on close.  Whenever the queue is closed and empty
\* and a consumer is inside pop (blocked, woken, or just calling), that pop
\* call eventually returns false unless a push follows; and no thread is
\* blocked in cv.wait while the queue is closed.
C4_PopUnblocksOnClose ==
    /\ \A c \in Consumers :
          (closed /\ buffer = <<>> /\ InPop(c))
              ~> ((q_pc[c] = "done" /\ ~ret[c].ok) \/ buffer # <<>>)
    /\ [](closed => Waiting = {})

\* The queue is closed and empty, nothing was ever pushed, and two consumers
\* are back from pop with false.
C4_Witness ==
    /\ closed /\ buffer = <<>> /\ pushed = 0
    /\ \E c, d \in Consumers :
          /\ c # d
          /\ q_pc[c] = "done" /\ q_op[c] = "pop" /\ ~ret[c].ok
          /\ q_pc[d] = "done" /\ q_op[d] = "pop" /\ ~ret[d].ok

\* The step in which thread t returns from the queue method op.
Returns(t, op) == q_op[t] = op /\ q_pc[t] = "cs" /\ q_pc'[t] = "done"

\* C5: pop result.  pop returns only when the queue is non-empty or closed;
\* it returns false exactly when the queue is closed and empty at that moment,
\* and then changes neither data nor the buffer; otherwise it moves the front
\* element to data, removes it and returns true.
C5_PopResult ==
    [][\A t \in Threads : Returns(t, "pop") =>
          /\ closed \/ buffer # <<>>
          /\ ~ret'[t].ok <=> (closed /\ buffer = <<>>)
          /\ IF closed /\ buffer = <<>>
             THEN data'[t] = data[t] /\ buffer' = buffer
             ELSE data'[t] = Head(buffer) /\ buffer' = Tail(buffer)]_vars

\* One client holds the false returned by pop, its data untouched, while the
\* other still holds an element that pop gave it.
C5_Witness ==
    \E t, u \in Clients :
        /\ q_pc[t] = "done" /\ q_op[t] = "pop" /\ ~ret[t].ok /\ data[t] = NoValue
        /\ q_pc[u] = "done" /\ q_op[u] = "pop" /\ ret[u].ok /\ data[u] = 1

\* C6: drain after close.  close() leaves the buffer as it is, and on a closed
\* queue every pop that returns while the buffer is non-empty returns true with
\* the front element; pop returns false on a closed queue only when the buffer
\* is empty.
C6_DrainAfterClose ==
    [][\A t \in Threads :
          /\ Returns(t, "close") => (closed' /\ buffer' = buffer)
          /\ (closed /\ Returns(t, "pop")) =>
                IF buffer # <<>>
                THEN ret'[t].ok /\ data'[t] = Head(buffer) /\ buffer' = Tail(buffer)
                ELSE ~ret'[t].ok]_vars

\* The queue is closed and every client's latest call is a pop that returned
\* an element: the client that closed the queue popped after its own close().
C6_Witness ==
    /\ closed
    /\ \A t \in Clients : GotElement(t) /\ q_op[t] = "pop"

\* Position of element e in the push order.
PushPos(e) == CHOOSE i \in 1..Len(pushOrder) : pushOrder[i] = e

\* C7: FIFO order.  Removals follow the order in which push appended the
\* elements: the removed elements are in push order, and as long as clear()
\* has discarded nothing they are exactly the first elements pushed, the
\* buffer holding the rest in order (nothing skipped).
C7_FifoOrder ==
    /\ \A i, j \in 1..Len(delivered) :
          i < j => PushPos(delivered[i]) < PushPos(delivered[j])
    /\ discarded = 0 => delivered \o buffer = pushOrder

\* Two elements were pushed and removed in that order, the first by a pop of
\* one client and the second by a try_pop of another.
C7_Witness ==
    /\ pushOrder = <<1, 2>>
    /\ delivered = <<1, 2>>
    /\ \E t, u \in Clients :
          /\ q_pc[t] = "done" /\ q_op[t] = "pop" /\ data[t] = 1
          /\ q_pc[u] = "done" /\ q_op[u] = "try_pop" /\ ret[u].val = 2

\* C8: try_pop result.  try_pop never waits; it removes and returns the front
\* element if and only if the queue is open and non-empty, and returns the
\* empty result, leaving the buffer alone, in every other state.
C8_TryPopResult ==
    [][\A t \in Threads :
          /\ q_op'[t] = "try_pop" => q_pc'[t] # "wait"
          /\ Returns(t, "try_pop") =>
                IF ~closed /\ buffer # <<>>
                THEN /\ ret'[t] = Ret(TRUE, Head(buffer))
                     /\ buffer' = Tail(buffer)
                ELSE /\ ret'[t] = Ret(FALSE, NoValue)
                     /\ buffer' = buffer]_vars

\* Nothing was ever removed from the closed, non-empty queue, and every
\* client's latest call is a try_pop that returned the empty result: the
\* client that pushed last called try_pop on a closed non-empty queue.
C8_Witness ==
    /\ closed /\ buffer # <<>> /\ buffer = pushOrder
    /\ \A t \in Clients : q_pc[t] = "done" /\ q_op[t] = "try_pop" /\ ~ret[t].ok

\* C9: concurrent try_pop readers.  On an open queue filled with N elements
\* and not pushed to again, once every reader's try_pop loop has ended the
\* readers have counted exactly N elements, each element was removed once,
\* and the queue is empty; no reader ever counts more than was removed.
C9_ReadersRetrieveAll ==
    /\ count <= Len(delivered)
    /\ ReadersJoined =>
          /\ count = pushed
          /\ delivered = pushOrder
          /\ buffer = <<>>

\* Every reader's loop has ended, and between them the readers have counted
\* all the elements of the largest fill.
C9_Witness ==
    /\ ReadersJoined
    /\ count = MaxPrefill

\* C10: push effect.  push never waits, and in every state, open or closed, it
\* appends its argument at the back of the buffer (length plus one, the other
\* elements in place) and leaves the closed flag as it is.
C10_PushEffect ==
    [][\A t \in Threads :
          /\ q_op'[t] = "push" => q_pc'[t] # "wait"
          /\ Returns(t, "push") =>
                /\ buffer' = Append(buffer, q_arg[t])
                /\ Len(buffer') = Len(buffer) + 1
                /\ closed' = closed]_vars

\* The queue is closed and every client's latest call is a push whose element
\* is in the buffer: the client that closed the queue pushed after its close().
C10_Witness ==
    /\ closed
    /\ \A t \in Clients :
          /\ q_pc[t] = "done" /\ q_op[t] = "push"
          /\ \E i \in 1..Len(buffer) : buffer[i] = q_arg[t]

\* C11: closed is monotonic.  The queue is created open, and no step of any
\* method takes the closed flag from true back to false.
C11_ClosedMonotonic ==
    /\ ~closed
    /\ [][closed => closed']_vars

\* The queue is closed, and the clients' latest calls are a push and a clear
\* that have returned: whichever client closed the queue called one of them
\* afterwards.
C11_Witness ==
    /\ closed
    /\ \E t, u \in Clients :
          /\ q_pc[t] = "done" /\ q_op[t] = "push"
          /\ q_pc[u] = "done" /\ q_op[u] = "clear"

\* C12: idempotent close and stop.  A close() on an already closed queue
\* leaves the flag and the buffer as they are.  A stop() on a pool that is not
\* running (a second stop() included) returns through the guard: the stop
\* protocol is entered only by a running pool, and from the call to the return
\* of such a stop() the running flag stays false, the worker map stays empty
\* and the queue keeps its closed flag and its contents.
C12_IdempotentCloseStop ==
    /\ [](m_pc = "stop_set" => running)
    /\ [](m_pc = "stop_noop" => ~running /\ workers = {})
    /\ [][/\ (m_pc = "stop_noop" \/ m_pc' = "stop_noop") =>
                UNCHANGED <<running, workers, w_pc, closed, buffer>>
          /\ \A t \in Threads :
                (closed /\ Returns(t, "close")) => (closed' /\ buffer' = buffer)]_vars

\* A second stop() is at its guard's return: an earlier stop() has closed the
\* queue, and a task submitted since is still in it.
C12_Witness ==
    /\ m_pc = "stop_noop"
    /\ closed /\ ~running /\ workers = {}
    /\ buffer # <<>>

\* C13: start while running is a no-op.  start(n) on a running pool returns at
\* its guard for every n: the spawning path is entered only by a pool that is
\* not running, and from the call to the return of a guarded start() the
\* running flag stays true, the worker map keeps its entries, no thread
\* appears, and the steps of start() itself leave the queue as it is.
C13_StartWhileRunning ==
    /\ [](m_pc = "start_set" => ~running)
    /\ [](m_pc = "start_noop" => running)
    /\ [][/\ (m_pc = "start_noop" \/ m_pc' = "start_noop") =>
                /\ UNCHANGED <<running, workers>>
                /\ \A w \in Workers : w_pc[w] = "none" => w_pc'[w] = "none"
          /\ (m_pc # m_pc' /\ "start_noop" \in {m_pc, m_pc'}) =>
                UNCHANGED <<qvars, w_pc>>]_vars

\* start() has returned at its guard on a running pool while a worker is
\* executing a task and another task is queued.
C13_Witness ==
    /\ m_pc = "start_noop"
    /\ running /\ workers # {}
    /\ \E w \in workers : w_pc[w] = "exec"
    /\ buffer # <<>>

\* C14: start(n) on a pool that is not running.  Past the guard running is
\* true, and after i iterations of the loop the map holds exactly the i entries
\* "Worker 0" .. "Worker i-1", each with a thread of its own, and no other
\* worker thread exists; the loop ends after n iterations, or after none when
\* n <= 0, the pool running all the same.
C14_StartSpawns ==
    m_pc = "start_spawn" =>
        /\ running
        /\ workers = {<<"Worker", i>> : i \in 0..(m_i - 1)}
        /\ Cardinality(workers) = m_i
        /\ \A w \in Workers : w \in workers <=> w_pc[w] # "none"
        /\ m_i <= (IF m_n > 0 THEN m_n ELSE 0)

\* The loop of start(MaxWorkers) has ended: start() is about to return.
C14_Witness ==
    /\ m_pc = "start_spawn"
    /\ m_n = MaxWorkers /\ m_i = m_n
    /\ Cardinality(workers) = MaxWorkers

\* The positions of stop() past its guard, and the order in which it moves
\* through them.
StopPositions == {"stop_set", "drain", "close", "join_loop", "join", "stop_ret"}
StopOrder ==
    {<<"stop_set", "drain">>, <<"drain", "close">>, <<"close", "join_loop">>,
     <<"join_loop", "join">>, <<"join", "join_loop">>, <<"join_loop", "stop_ret">>}

\* C15: stop protocol.  On a running pool stop() goes, in this order, through
\* running := false, the drain wait, close(), the joins and the clearing of the
\* map.  The drain wait ends only on an empty() that returned true or on the
\* timeout, the queue's flag is set only by the close() that follows it, a
\* worker is joined only once its thread function has returned, and the map is
\* cleared only when every entry is joined.  When stop() returns, running is
\* false, the queue is closed, the map is empty and no worker thread exists.
C15_StopProtocol ==
    /\ [](m_pc \in {"drain", "close", "join_loop", "join", "stop_ret"} => ~running)
    /\ [](m_pc \in {"join_loop", "join", "stop_ret"} => closed)
    /\ [](m_pc = "stop_ret" =>
             /\ workers = {}
             /\ \A w \in Workers : w_pc[w] = "none")
    /\ [][/\ (m_pc \in StopPositions \ {"stop_ret"} /\ m_pc' # m_pc) =>
                <<m_pc, m_pc'>> \in StopOrder
          /\ (running /\ ~running') => (m_pc = "stop_set" /\ m_pc' = "drain")
          /\ (m_pc = "drain" /\ m_pc' = "close") =>
                (q_pc[Main] = "done" /\ q_op[Main] = "empty" /\ (ret[Main].ok \/ timedOut'))
          /\ (~closed /\ closed') => (m_pc = "close" /\ mtx = Main)
          /\ \A w \in Workers :
                (w_pc[w] # "joined" /\ w_pc'[w] = "joined") =>
                    (m_pc = "join" /\ m_join = w /\ w_pc[w] = "exited")
          /\ (workers # {} /\ workers' = {}) =>
                (m_pc = "join_loop" /\ \A w \in workers : w_pc[w] = "joined")]_vars

\* stop() returns on a pool of MaxWorkers workers that has executed a task: the
\* queue is closed and empty and nothing is left of the workers.
C15_Witness ==
    /\ m_pc = "stop_ret"
    /\ m_n = MaxWorkers /\ openAtStart
    /\ ~running /\ closed /\ workers = {} /\ buffer = <<>>
    /\ \E k \in 1..pushed : executed[k] = 1

\* C16: stop when not running is a no-op.  A stop() that finds running false,
\* called directly or by the destructor, and the rest of the destructor leave
\* the queue's flag and contents alone and running false.  The queue goes from
\* open to closed only in the stop() of a pool that was started, so a pool
\* that was never started never closes its queue.
C16_StopWhenNotRunning ==
    /\ [](m_pc \in {"stop_noop", "dtor_clear", "destroyed"} => ~running)
    /\ [][/\ ("stop_noop" \in {m_pc, m_pc'} \/ m_pc = "dtor_clear") =>
                UNCHANGED <<closed, buffer, running>>
          /\ (~closed /\ closed') => openAtStart]_vars

\* A pool that was never started has been destroyed: its queue is still open
\* and still holds the tasks that were submitted.
C16_Witness ==
    /\ m_pc = "destroyed"
    /\ ~closed /\ ~running
    /\ Len(buffer) = MaxTasks

\* C17: no thread leak on destruction.  Whatever state the pool is destroyed
\* in, once the stop() called by the destructor has returned, and from then on
\* through the end of the destructor, the map is empty and no worker thread of
\* the pool exists.
C17_NoThreadLeak ==
    (m_dtor /\ m_pc \in {"stop_noop", "stop_ret", "dtor_clear", "destroyed"}) =>
        /\ workers = {}
        /\ \A w \in Workers : w_pc[w] = "none"

\* The stop() run by the destructor returns after the full protocol on a pool
\* that was running MaxWorkers workers and had executed a task.
C17_Witness ==
    /\ m_dtor /\ m_pc = "stop_ret"
    /\ m_n = MaxWorkers /\ openAtStart
    /\ \E k \in 1..pushed : executed[k] = 1
    /\ \A w \in Workers : w_pc[w] = "none"

\* The other workers are where they were.
OthersUnchanged(w) == \A v \in Workers \ {w} : w_pc'[v] = w_pc[v]

\* C18: failure isolation.  The step in which a task throws and the step in
\* which the catch clause ends change nothing but the position of the worker
\* that ran the task: the queue, the running flag, the map and the other
\* workers are as before.  From the catch clause the worker goes back to the
\* top of its loop and from there to the next pop, and a worker's thread
\* function returns only when a pop has returned false.
C18_FailureIsolation ==
    [][\A w \in Workers :
          /\ (w_pc[w] = "exec" /\ w_pc'[w] = "catch") =>
                (UNCHANGED <<qvars, running, workers, m_pc>> /\ OthersUnchanged(w))
          /\ (w_pc[w] = "catch" /\ w_pc'[w] # "catch") =>
                /\ w_pc'[w] = "loop"
                /\ UNCHANGED <<qvars, running, workers, m_pc>>
                /\ OthersUnchanged(w)
          /\ (w_pc[w] = "loop" /\ w_pc'[w] # "loop") =>
                (w_pc'[w] = "pop" /\ q_op'[w] = "pop")
          /\ (w_pc[w] # "exited" /\ w_pc'[w] = "exited") =>
                (w_pc[w] = "pop" /\ q_pc[w] = "done" /\ ~ret[w].ok)]_vars

\* The only worker of a pool that has not been stopped is executing the second
\* task after the first one, which it ran itself, threw.
C18_Witness ==
    /\ ~closed /\ running
    /\ m_n = 1 /\ workers = {<<"Worker", 0>>}
    /\ failed
    /\ executed[1] = 1 /\ executed[2] = 0
    /\ w_pc[<<"Worker", 0>>] = "exec" /\ data[<<"Worker", 0>>] = 2

\* C19: no retry.  No task is executed more than once, whether it returned or
\* threw; a task that has been executed is not in the queue any more, and the
\* queue grows only by a push of submit(), never by a worker.
C19_NoRetry ==
    /\ [](\A k \in 1..MaxTasks :
             /\ executed[k] <= 1
             /\ executed[k] = 1 => \A i \in 1..Len(buffer) : buffer[i] # k)
    /\ [][Len(buffer') > Len(buffer) =>
             (m_pc = "submit" /\ mtx = Main /\ q_op[Main] = "push")]_vars

\* The only task submitted was executed once and threw; it is not in the queue,
\* and the worker is waiting in pop for another task.
C19_Witness ==
    /\ pushed = 1 /\ failed
    /\ executed[1] = 1
    /\ buffer = <<>> /\ ~closed
    /\ \E w \in workers : w_pc[w] = "pop" /\ q_pc[w] = "wait"

\* The pool is inactive: running is false and no stop() is under way.
Inactive == ~running /\ m_pc \notin StopPositions

\* C20 as stated: a task submitted while running is false is never executed.
C20_NeverExecuted ==
    \A k \in 1..MaxTasks :
        []((m_pc = "submit" /\ q_arg[Main] = k /\ ~running) => [](executed[k] = 0))

\* C20, amended: submit on an inactive pool.  The push of submit() appends the
\* task to the queue whether the pool is running or not and whether the queue
\* is open or closed.  While the pool is inactive there is no worker thread,
\* no task is executed and nothing leaves the queue, so the task stays queued
\* and unexecuted until a start() makes the pool run.
C20_SubmitInactive ==
    /\ [](Inactive => \A w \in Workers : w_pc[w] = "none")
    /\ []((Inactive /\ m_pc = "submit" /\ q_pc[Main] = "done") =>
             /\ buffer # <<>>
             /\ buffer[Len(buffer)] = q_arg[Main]
             /\ executed[q_arg[Main]] = 0)
    /\ [][/\ Returns(Main, "push") =>
                (buffer' = Append(buffer, q_arg[Main]) /\ Len(buffer') = Len(buffer) + 1)
          /\ Inactive =>
                /\ executed' = executed
                /\ Len(buffer') >= Len(buffer)
                /\ \A i \in 1..Len(buffer) : buffer'[i] = buffer[i]]_vars

\* submit() on a stopped pool has pushed its task: the queue is closed, there
\* is no worker, and the task is in the queue.
C20_Witness ==
    /\ Inactive /\ closed
    /\ m_pc = "submit" /\ q_pc[Main] = "done"
    /\ buffer # <<>> /\ buffer[Len(buffer)] = q_arg[Main]

----------------------------------------------------------------------------
\* A second thread uses the pool: it calls submit() while the owning thread
\* is anywhere in start() or stop().
Submitter == <<"producer", 1>>

\* Bounds of the runs with a second thread: the tasks it submits and the
\* workers the owning thread asks for.
MaxSubmitted == 1
MaxStarted == 1

\* WorkerPool::submit called by the second thread: task_queue.push(std::move(task)).
submit_from(p) ==
    /\ q_pc[p] = "idle"
    /\ pushed < MaxSubmitted
    /\ pushed' = pushed + 1
    /\ q_pc' = [q_pc EXCEPT ![p] = "lock"]
    /\ q_op' = [q_op EXCEPT ![p] = "push"]
    /\ q_arg' = [q_arg EXCEPT ![p] = pushed + 1]
    /\ UNCHANGED <<buffer, closed, mtx, data, ret, pushOrder, delivered, discarded>>
    /\ UNCHANGED pvars

\* push returned: submit() returns to the second thread.
submit_from_return(p) ==
    /\ q_op[p] = "push"
    /\ q_pc[p] = "done"
    /\ q_pc' = [q_pc EXCEPT ![p] = "idle"]
    /\ q_op' = [q_op EXCEPT ![p] = "none"]
    /\ q_arg' = [q_arg EXCEPT ![p] = NoValue]
    /\ UNCHANGED <<buffer, closed, mtx, data, ret, pushed, pushOrder, delivered, discarded>>
    /\ UNCHANGED pvars

\* The owning thread starts the pool and stops it, and the second thread
\* submits the tasks, for as long as the pool object exists.  The pool is not
\* started again after a stop() (a restart is not supported): start() is
\* called only while the queue is open.
SharedPoolNext ==
    \/ \E n \in -1..MaxStarted : ~closed /\ start_guard(n)
    \/ start_set
    \/ start_spawn
    \/ start_return
    \/ \E dtor \in BOOLEAN : stop_guard(dtor)
    \/ stop_set
    \/ drain_done
    \/ drain_sleep
    \/ close_return
    \/ join_next
    \/ join
    \/ clear_workers
    \/ stop_return
    \/ dtor_clear
    \/ \E w \in Workers : run_pop(w)
    \/ \E w \in Workers : run_break(w)
    \/ \E w \in Workers : run_invoke(w)
    \/ \E w \in Workers : run_task_done(w)
    \/ \E w \in Workers : run_catch(w)
    \/ \E t \in Workers \cup {Main, Submitter} : Lock(t)
    \/ push(Submitter)
    \/ empty(Main)
    \/ close(Main)
    \/ \E w \in Workers : pop_wait(w)
    \/ \E w \in Workers : pop_false(w)
    \/ \E w \in Workers : pop_true(w)
    \/ \E w \in Workers : SpuriousWakeup(w)
    \/ m_pc # "destroyed" /\ submit_from(Submitter)
    \/ submit_from_return(Submitter)

SharedPoolSpec == Init /\ [][SharedPoolNext]_vars

\* Scheduling of the pool's threads and of the submitting thread: a call of
\* submit() that was made runs on to its return.  (The owning thread never
\* pushes here, so its fairness condition on push is vacuous.)
SharedPoolFairness ==
    /\ PoolFairness
    /\ SF_vars(Lock(Submitter))
    /\ WF_vars(push(Submitter) \/ submit_from_return(Submitter))

FairSharedPoolSpec == SharedPoolSpec /\ SharedPoolFairness

\* C21: no task submitted after stop() has closed the queue is ever executed
\* by a worker.
C21_NoTaskAfterClose ==
    \A k \in 1..MaxTasks :
        []((closed /\ pushed < k) => [](executed[k] = 0))

\* C21, amended: a task submitted after stop() has closed the queue is still
\* appended to the queue (push does not look at the closed flag), and a worker
\* that has not left its loop yet takes it and executes it like any other.
\* Only once stop() has joined the workers is nothing executed any more: a task
\* then in the queue, or submitted later, stays unexecuted.
C21_AfterClose ==
    /\ [][(closed /\ Returns(Submitter, "push")) =>
              buffer' = Append(buffer, q_arg[Submitter])]_vars
    /\ [][(closed /\ m_pc \notin {"close", "join_loop", "join"}) =>
              executed' = executed]_vars
    /\ []((closed /\ m_pc \notin {"close", "join_loop", "join"}) =>
              \A w \in Workers : w_pc[w] \in {"none", "joined"})

\* stop() has closed the queue and waits in join() for a worker, and that
\* worker executes the task whose submit() is not back yet.
C21_Witness ==
    /\ closed /\ m_pc = "join" /\ ~timedOut
    /\ q_op[Submitter] = "push" /\ q_pc[Submitter] = "done"
    /\ \E w \in workers : w_pc[w] = "exec" /\ data[w] = q_arg[Submitter]

\* stop() between its running = false and its workers.clear().
Stopping == m_pc \in {"drain", "close", "join_loop", "join"}

\* C22 as stated: in every reachable state, the intermediate states of start()
\* and stop() included, running = false implies that no worker thread exists.
C22_NoWorkersUnlessRunning ==
    ~running => (workers = {} /\ \A w \in Workers : w_pc[w] = "none")

\* C22, amended: whenever running is false and stop() is not between its
\* running = false and its workers.clear(), no worker thread exists and the
\* worker map is empty.  (start() sets running before it spawns, so its
\* intermediate states are covered; stop() clears running first and joins
\* last, so in between the workers are alive while running is false.)
C22_NoWorkersWhenIdle ==
    (~running /\ ~Stopping) => (workers = {} /\ \A w \in Workers : w_pc[w] = "none")

\* stop() has just cleared the map of a pool whose workers executed a task.
C22_Witness ==
    /\ ~running /\ m_pc = "stop_ret"
    /\ \E k \in 1..MaxTasks : executed[k] > 0
    /\ workers = {} /\ \A w \in Workers : w_pc[w] = "none"

\* C23: clear() empties the buffer (size 0) whatever it held, leaves the closed
\* flag as it is, wakes no thread (a thread blocked in pop stays blocked, every
\* other thread stays where it is), and hands the discarded elements to nobody:
\* clear() itself returns nothing and no thread's out-parameter or result
\* changes.
C23_ClearEffect ==
    [][\A t \in Threads :
          Returns(t, "clear") =>
              /\ buffer' = <<>> /\ Len(buffer') = 0
              /\ discarded' = discarded + Len(buffer)
              /\ closed' = closed
              /\ \A u \in Threads \ {t} : q_pc'[u] = q_pc[u] /\ ret'[u] = ret[u]
              /\ ret'[t] = Void
              /\ data' = data
              /\ delivered' = delivered]_vars

\* A clear() that discarded elements is back while another client is blocked
\* in pop on the open, now empty queue.
C23_Witness ==
    /\ ~closed /\ buffer = <<>> /\ discarded > 0
    /\ \E t \in Clients : q_op[t] = "clear" /\ q_pc[t] = "done"
    /\ \E u \in Clients : q_op[u] = "pop" /\ q_pc[u] = "wait"

\* Positions of a worker thread inside the for(;;) loop of run().
InLoop == {"loop", "pop", "exec", "catch"}

C25_StopsWhenNotRunning ==
    [][\A w \in Workers : ~running => ~(Returns(w, "pop") /\ ret'[w].ok)]_vars

\* C26: the queue lock is never held while a task executes or while a thread
\* waits.  The holder of the mutex is inside a queue method; a worker that
\* executes a task (or handles its failure) is outside every queue method and
\* does not hold the mutex; a thread blocked in cv.wait does not hold it.
C26_LockFreeDuringTask ==
    /\ \A t \in Threads : mtx = t => q_pc[t] = "cs"
    /\ \A w \in Workers :
          w_pc[w] \in {"exec", "catch"} => (mtx # w /\ q_pc[w] = "idle")
    /\ \A t \in Threads : q_pc[t] = "wait" => mtx # t

\* Two workers execute tasks at the same time.
C26_Witness ==
    /\ \A w \in Workers : w_pc[w] = "exec"
    /\ \A w1, w2 \in Workers : w1 # w2 => data[w1] # data[w2]
    /\ mtx = NoThread

\* No task has been executed.
NoneExecuted == \A k \in 1..MaxTasks : executed[k] = 0

\* C27: zero-worker pool.  After start(n) with n <= 0 there is no worker:
\* nothing is executed and every submitted task stays in the queue.  A stop()
\* that finds tasks in the queue still terminates: its drain wait ends by the
\* timeout, it closes the queue and returns with the tasks still queued and
\* unexecuted.
C27_ZeroWorkerPool ==
    /\ [](m_n <= 0 => (workers = {} /\ NoneExecuted /\ buffer = pushOrder))
    /\ (m_n <= 0 /\ m_pc = "stop_set" /\ buffer # <<>>)
          ~> (/\ m_pc = "stop_ret" /\ timedOut /\ closed /\ ~running
              /\ buffer # <<>> /\ buffer = pushOrder /\ NoneExecuted)

\* stop() of a pool started with no worker is about to return: the drain wait
\* timed out, the queue is closed and the submitted task is still in it.
C27_Witness ==
    /\ m_n <= 0 /\ m_pc = "stop_ret" /\ timedOut /\ closed
    /\ buffer # <<>> /\ NoneExecuted

\* C29 as stated: in every reachable state every entry of the worker map is a
\* thread that is alive or still joinable, never an already joined one.
C29_MapEntriesJoinable ==
    \A w \in workers : w_pc[w] \in InLoop \cup {"exited"}

\* C29, amended: outside the join loop of stop() every entry of the worker map
\* is a thread that is alive or has ended without having been joined; inside
\* the loop the entries already joined stay in the map, as handles that are no
\* longer joinable, until workers.clear() removes them all.  A thread that is
\* not in the map does not exist, and only the owning thread, in start(),
\* stop() or the destructor, adds or removes entries: no step of a worker
\* changes the map.
C29_WorkerMap ==
    /\ [](m_pc \notin {"join_loop", "join"} =>
             \A w \in workers : w_pc[w] \in InLoop \cup {"exited"})
    /\ [](\A w \in workers : w_pc[w] # "none")
    /\ [](\A w \in Workers \ workers : w_pc[w] = "none")
    /\ [][workers' # workers =>
             /\ m_pc \in {"start_spawn", "join_loop", "dtor_clear"}
             /\ \A w \in Workers : w_pc[w] \in InLoop => w_pc'[w] = w_pc[w]]_vars

\* stop() waits in join() for one worker, which is still executing a task,
\* while the entry of the worker it has already joined is still in the map.
C29_Witness ==
    /\ m_pc = "join"
    /\ \E w \in workers : w_pc[w] = "joined"
    /\ \E w \in workers : w_pc[w] = "exec"

----------------------------------------------------------------------------
\* Two threads call start() on the same pool.  The accesses of the two threads
\* to the map are taken one at a time.

\* if (running) return;   in the second thread's call.
second_start_guard(n) ==
    /\ second.pc = "idle"
    /\ second' = IF running
                 THEN [second EXCEPT !.pc = "start_noop"]
                 ELSE [pc |-> "start_set", n |-> n, i |-> second.i]
    /\ UNCHANGED qvars
    /\ UNCHANGED <<failed, count, running, workers, w_pc, m_pc, m_n, m_i, m_join,
                   m_dtor, executed, openAtStart, timedOut, pendingAtStop>>

\* running = true;   in the second thread's call.
second_start_set ==
    /\ second.pc = "start_set"
    /\ running' = TRUE
    /\ second' = [second EXCEPT !.pc = "start_spawn", !.i = 0]
    /\ openAtStart' = ~closed
    /\ UNCHANGED qvars
    /\ UNCHANGED <<failed, count, workers, w_pc, m_pc, m_n, m_i, m_join, m_dtor,
                   executed, timedOut, pendingAtStop>>

\* workers.emplace(name, std::thread(run)) in the second thread's call, the
\* name not being in the map yet.
second_start_spawn ==
    /\ second.pc = "start_spawn"
    /\ second.i < second.n
    /\ <<"Worker", second.i>> \notin workers
    /\ workers' = workers \cup {<<"Worker", second.i>>}
    /\ w_pc' = [w_pc EXCEPT ![<<"Worker", second.i>>] = "loop"]
    /\ second' = [second EXCEPT !.i = @ + 1]
    /\ UNCHANGED qvars
    /\ UNCHANGED <<failed, count, running, m_pc, m_n, m_i, m_join, m_dtor, executed,
                   openAtStart, timedOut, pendingAtStop>>

\* The second thread's call returns.
second_start_return ==
    /\ \/ second.pc = "start_spawn" /\ second.i >= second.n
       \/ second.pc = "start_noop"
    /\ second' = [second EXCEPT !.pc = "idle"]
    /\ UNCHANGED qvars
    /\ UNCHANGED <<failed, count, running, workers, w_pc, m_pc, m_n, m_i, m_join,
                   m_dtor, executed, openAtStart, timedOut, pendingAtStop>>

\* workers.emplace(name, std::thread(run)) with a name that is in the map
\* already: the map keeps its entry and the new std::thread object is
\* destroyed while joinable, which calls std::terminate.
start_spawn_taken ==
    /\ m_pc = "start_spawn"
    /\ m_i < m_n
    /\ <<"Worker", m_i>> \in workers
    /\ m_pc' = "terminated"
    /\ UNCHANGED qvars
    /\ UNCHANGED <<second, failed, count, running, workers, w_pc, m_n, m_i, m_join,
                   m_dtor, executed, openAtStart, timedOut, pendingAtStop>>

second_start_spawn_taken ==
    /\ second.pc = "start_spawn"
    /\ second.i < second.n
    /\ <<"Worker", second.i>> \in workers
    /\ second' = [second EXCEPT !.pc = "terminated"]
    /\ UNCHANGED qvars
    /\ UNCHANGED <<failed, count, running, workers, w_pc, m_pc, m_n, m_i, m_join,
                   m_dtor, executed, openAtStart, timedOut, pendingAtStop>>

\* std::terminate has ended the process.
Terminated == m_pc = "terminated" \/ second.pc = "terminated"

\* The owning thread and a second thread call start() on an idle pool, again
\* and again; the workers that get spawned run their loop on the empty queue.
TwoStartersNext ==
    \/ \E n \in 0..MaxWorkers : ~Terminated /\ start_guard(n)
    \/ ~Terminated /\ start_set
    \/ ~Terminated /\ <<"Worker", m_i>> \notin workers /\ start_spawn
    \/ ~Terminated /\ start_spawn_taken
    \/ ~Terminated /\ start_return
    \/ \E n \in 0..MaxWorkers : ~Terminated /\ second_start_guard(n)
    \/ ~Terminated /\ second_start_set
    \/ ~Terminated /\ second_start_spawn
    \/ ~Terminated /\ second_start_spawn_taken
    \/ ~Terminated /\ second_start_return
    \/ \E w \in Workers : ~Terminated /\ run_pop(w)
    \/ \E w \in Workers : ~Terminated /\ Lock(w)
    \/ \E w \in Workers : ~Terminated /\ pop_wait(w)
    \/ \E w \in Workers : ~Terminated /\ SpuriousWakeup(w)

TwoStartersSpec == Init /\ [][TwoStartersNext]_vars

\* A call of start() is past the guard: it is about to set running or is in
\* its spawn loop.
PastGuard(pc) == pc \in {"start_set", "start_spawn"}

\* C28: the running flag coordinates start(): when start() is called from two
\* threads on an idle pool, at most one of the calls passes the guard and
\* spawns; the other one is a no-op.
C28_OneStarterPasses ==
    ~(PastGuard(m_pc) /\ PastGuard(second.pc))

\* Worker w still serves the queue: it is inside its loop and its pop has not
\* returned false.
Serving(w) ==
    /\ w_pc[w] \in InLoop
    /\ ~(q_op[w] = "pop" /\ q_pc[w] = "done" /\ ~ret[w].ok)

\* Tasks are in the queue and no worker serves it any more (or yet).
Stranded == buffer # <<>> /\ \A w \in Workers : ~Serving(w)

\* The tasks that push has appended to the queue so far.
Appended == {pushOrder[i] : i \in 1..Len(pushOrder)}

\* The tasks that are in the queue.
Queued == {buffer[i] : i \in 1..Len(buffer)}

\* C31: a drain timeout loses no task when a worker exists.  The last worker
\* that serves the queue never gives up while a task is queued: tasks get
\* stranded only by a push made when no worker was serving.  So what is in the
\* queue when stop() closes it, timeout or not, is taken by the workers before
\* the last of them leaves, and when stop() returns every task taken has been
\* executed and every task appended is either executed or still queued (pushed
\* after the last worker gave up).
C31_TimeoutLosesNoTask ==
    /\ [][(~Stranded /\ Stranded') =>
             /\ \A w \in Workers : ~Serving(w)
             /\ \E t \in Threads : Returns(t, "push")]_vars
    /\ []((~closed /\ m_n >= 1 /\ m_pc \in {"drain", "close"}) =>
             \E w \in workers : Serving(w))
    /\ [](m_pc = "stop_ret" =>
             /\ \A i \in 1..Len(delivered) : executed[delivered[i]] >= 1
             /\ \A k \in Appended : executed[k] >= 1 \/ k \in Queued)

\* stop() is about to return on a pool with a worker: the drain wait timed out
\* with the task in the queue, and the task has been executed all the same.
C31_Witness ==
    /\ m_pc = "stop_ret" /\ m_n >= 1 /\ timedOut
    /\ Appended # {} /\ buffer = <<>>
    /\ \A k \in Appended : executed[k] = 1

\* Threads inside pop that can run: on their way to the mutex (a fresh call or
\* a waiter that was woken) or holding it.
RunnablePoppers == {t \in Threads : q_op[t] = "pop" /\ q_pc[t] \in {"lock", "cs"}}

C33_NoBlockAfterClose ==
    /\ [](closed => \A t \in Threads :
              /\ ~(q_op[t] = "pop" /\ q_pc[t] = "wait")
              /\ (q_op[t] = "pop" /\ q_pc[t] = "cs") =>
                    ENABLED (pop_true(t) \/ pop_false(t)))
    /\ [][\A t \in Threads :
            (closed /\ q_op[t] = "pop" /\ q_pc[t] = "cs" /\ q_pc'[t] # "cs") =>
                /\ q_pc'[t] = "done"
                /\ IF buffer # <<>>
                   THEN /\ ret'[t].ok /\ data'[t] = Head(buffer)
                        /\ buffer' = Tail(buffer)
                   ELSE /\ ~ret'[t].ok /\ buffer' = buffer]_vars

\* One client's pop has returned false, so the queue was closed and empty
\* then; the buffer holds an element now, pushed after the close, and the
\* other client holds the lock inside pop with that element at the front.
C33_Witness ==
    /\ closed /\ buffer # <<>>
    /\ \E t, u \in Clients :
          /\ q_op[t] = "pop" /\ q_pc[t] = "done" /\ ~ret[t].ok
          /\ q_op[u] = "pop" /\ q_pc[u] = "cs" /\ mtx = u

\* No worker thread is inside the loop of run().
NoLiveWorker == \A w \in Workers : w_pc[w] \notin InLoop

\* C34 as stated: a task that submit() has yet to append when the workers of
\* the restarted pool (running, on the closed queue) have all exited is never
\* executed.
C34_NeverExecuted ==
    \A k \in 1..MaxTasks :
        []((closed /\ running /\ workers # {} /\ NoLiveWorker
                /\ m_pc = "submit" /\ q_arg[Main] = k /\ k \notin Appended)
              => [](executed[k] = 0))

\* C34, amended: restart after stop.  The queue stays closed once stop() closed
\* it.  A start(n) on the closed queue passes the guard only with running
\* false, sets running to true and returns with n entries in the map; a worker
\* whose pop finds the closed queue empty gets false and its thread function
\* returns.  While no worker is in its loop no task is executed, and workers
\* enter the loop only in the spawn loop of a start(), which running = true
\* turns into a no-op until a stop() resets the flag: a task submitted after
\* the workers exited stays unexecuted until the pool is stopped and started
\* once more.
C34_RestartAfterStop ==
    /\ [](m_pc = "start_set" => ~running)
    /\ [][/\ closed => closed'
          /\ (closed /\ m_pc = "start_set" /\ m_pc' # m_pc) => running'
          /\ (closed /\ m_pc = "start_spawn" /\ m_pc' = "idle") =>
                (running /\ Cardinality(workers) = (IF m_n > 0 THEN m_n ELSE 0))
          /\ \A w \in Workers :
                /\ (closed /\ buffer = <<>> /\ Returns(w, "pop")) => ~ret'[w].ok
                /\ (w_pc[w] = "pop" /\ q_pc[w] = "done" /\ ~ret[w].ok
                        /\ w_pc'[w] # w_pc[w]) => w_pc'[w] = "exited"
          /\ NoLiveWorker => executed' = executed
          /\ (NoLiveWorker /\ ~NoLiveWorker') => m_pc = "start_spawn"
          /\ (running /\ ~running') => m_pc = "stop_set"]_vars

\* The restarted pool is running on the closed queue, all its workers have
\* found the queue empty and left, and a submit() has just appended a task
\* that nobody will take.
C34_Witness ==
    /\ closed /\ running /\ workers # {} /\ NoLiveWorker
    /\ \A w \in workers : w_pc[w] = "exited"
    /\ m_pc = "submit" /\ q_pc[Main] = "done"
    /\ buffer = <<q_arg[Main]>> /\ executed[q_arg[Main]] = 0

\* The entries start(n) puts into the map: "Worker 0" .. "Worker n-1".
Spawned(n) == {<<"Worker", i>> : i \in 0..(n - 1)}

\* C35: live worker count.  While the queue is open (no stop() has closed it)
\* and running is true, outside the spawn loop of start(n), the map holds
\* exactly the n entries "Worker 0" .. "Worker n-1" (none for n <= 0), each of
\* these threads is inside the loop of run(), and there is no other worker
\* thread, whatever was submitted and whether or not a task has thrown.
C35_LiveWorkers ==
    (running /\ ~closed /\ m_pc # "start_spawn") =>
        /\ workers = Spawned(m_n)
        /\ Cardinality(workers) = (IF m_n > 0 THEN m_n ELSE 0)
        /\ \A w \in workers : w_pc[w] \in InLoop
        /\ \A w \in Workers \ workers : w_pc[w] = "none"

\* start(2) has returned, both tasks were submitted and executed, at least one
\* of them threw, and both workers are back in pop waiting for work.
C35_Witness ==
    /\ running /\ ~closed /\ m_pc = "idle" /\ m_n = 2
    /\ failed /\ \A k \in 1..MaxTasks : executed[k] = 1
    /\ Cardinality(workers) = 2
    /\ \A w \in workers : w_pc[w] = "pop" /\ q_pc[w] = "wait"

\* C36: try_pop returning the empty result changes nothing.  A try_pop that
\* returns empty leaves the buffer, the closed flag and every caller's data as
\* they were, and removes or discards no element; on a closed queue that
\* holds elements try_pop always returns empty, and an element leaves the
\* closed queue as a result only through a pop, which returns the front one.
C36_TryPopEmptyFrame ==
    [][/\ \A t \in Threads :
            /\ (Returns(t, "try_pop") /\ ~ret'[t].ok) =>
                  /\ buffer' = buffer /\ closed' = closed /\ data' = data
                  /\ delivered' = delivered /\ discarded' = discarded
                  /\ pushOrder' = pushOrder
            /\ (Returns(t, "try_pop") /\ closed /\ buffer # <<>>) =>
                  ret'[t] = Ret(FALSE, NoValue)
       /\ (closed /\ delivered' # delivered) =>
             \E t \in Threads :
                /\ Returns(t, "pop") /\ ret'[t].ok /\ data'[t] = Head(buffer)
                /\ buffer' = Tail(buffer)
                /\ delivered' = Append(delivered, Head(buffer))]_vars

\* The closed queue holds both pushed elements in push order, nothing was
\* ever removed, and every client's latest call is a try_pop that came back
\* empty: the client that pushed last called try_pop on the closed queue with
\* the elements in it.
C36_Witness ==
    /\ closed /\ buffer = <<1, 2>> /\ pushOrder = <<1, 2>>
    /\ delivered = <<>> /\ discarded = 0
    /\ \A t \in Clients : q_pc[t] = "done" /\ q_op[t] = "try_pop" /\ ret[t] = Ret(FALSE, NoValue)

\* C37: element conservation.  In every state the elements appended by push
\* are those returned by successful pop/try_pop calls, those discarded by
\* clear() and those in the buffer: the three counts add up to the number of
\* pushes performed.  Each count changes only in the step of its own method
\* (one per push, one per successful pop or try_pop, the buffer length per
\* clear).  size() returns the buffer length and empty() returns true exactly
\* when that length is 0, both read under the lock without changing it.
C37_Conservation ==
    /\ [](Len(pushOrder) = Len(delivered) + discarded + Len(buffer))
    /\ [][/\ Len(pushOrder') =
                Len(pushOrder) + (IF \E t \in Threads : Returns(t, "push") THEN 1 ELSE 0)
          /\ Len(delivered') =
                Len(delivered) +
                    (IF \E t \in Threads :
                           /\ Returns(t, "pop") \/ Returns(t, "try_pop")
                           /\ ret'[t].ok
                     THEN 1 ELSE 0)
          /\ discarded' =
                discarded + (IF \E t \in Threads : Returns(t, "clear")
                             THEN Len(buffer) ELSE 0)
          /\ \A t \in Threads :
                /\ Returns(t, "size") =>
                      (ret'[t].val = Len(buffer) /\ buffer' = buffer)
                /\ Returns(t, "empty") =>
                      ((ret'[t].ok <=> Len(buffer) = 0) /\ buffer' = buffer)]_vars

\* Two elements were pushed; one was returned by a pop or try_pop, the other
\* was discarded by clear(), and on the empty queue one client's size()
\* returned 0 and the other's empty() returned true.
C37_Witness ==
    /\ Len(pushOrder) = 2 /\ Len(delivered) = 1 /\ discarded = 1 /\ buffer = <<>>
    /\ \E t, u \in Clients :
          /\ q_op[t] = "size" /\ q_pc[t] = "done" /\ ret[t].val = 0
          /\ q_op[u] = "empty" /\ q_pc[u] = "done" /\ ret[u].ok

====
